---- MODULE Spec2Model ----
(***************************************************************************)
(* SweetExperiencesEngine.c: the achievement and notification engine.      *)
(*                                                                         *)
(* Three specifications over one set of variables:                         *)
(*   Spec       the running engine after main() has started its workers:   *)
(*              the evaluator (achievement_monitor_thread), the            *)
(*              change-signal watcher (kernel_hook_listener), the          *)
(*              dispatcher (notification_dispatcher_thread), the           *)
(*              compositor worker (wayland_event_listener) and the         *)
(*              termination signal handler, interleaved at the points      *)
(*              where they take and release data_mutex, while main waits   *)
(*              for a configuration change;                                *)
(*   SpecConfig the two writers of engine.enabled, main()'s configuration  *)
(*              reload loop and the termination signal handler, over the   *)
(*              contents the configuration file can have;                  *)
(*   SpecStore  the persistence store across process lifetimes: main()'s   *)
(*              load_engine_data at startup, save_engine_data at           *)
(*              shutdown, and the next start of the process.               *)
(*                                                                         *)
(* Text is modelled as a sequence of one-character strings, so that        *)
(* snprintf, strtok and sscanf are modelled by what they do to characters. *)
(***************************************************************************)
EXTENDS Integers, Sequences, FiniteSets, TLC

VARIABLES
    enabled,             \* engine.enabled
    data_mutex,          \* owner of engine.data_mutex, or "free"
    achievements,        \* engine.achievements[0 .. achievement_count-1]
    notification_queue,  \* engine.notification_queue, slot -> Notification
    notification_count,  \* engine.notification_count
    notification_head,   \* engine.notification_head
    notification_tail,   \* engine.notification_tail
    boot_count,          \* check_achievement_progress: static int boot_count
    event_count,         \* wayland_event_listener: static int event_count
    store,               \* content of SWEETEXP_DATA_PATH, or NoFile
    pc,                  \* position of each worker thread
    handler,             \* signal_handler: interrupted thread and position
    exited,              \* the process has called exit(0)
    pushed,              \* history: notifications accepted into the queue
    popped,              \* history: notifications the dispatcher dequeued
    resume,              \* check_achievement_progress: where its loops stand
    outcome,             \* history: what a thread's critical section did
    lastOp,              \* SpecStore: the latest store operation
    phase,               \* SpecStore: position in the process lifecycle
    savedCat,            \* SpecStore: catalog handed to the latest save
    srcLines,            \* SpecStore: the lines the initial store was made of
    config               \* SWEETEXP_INI_PATH as load_config last found it

vars == <<enabled, data_mutex, achievements, notification_queue,
          notification_count, notification_head, notification_tail,
          boot_count, event_count, store, pc, handler, exited,
          resume, pushed, popped, outcome, lastOp, phase, savedCat,
          srcLines, config>>

engineVars == <<enabled, data_mutex, notification_queue, notification_count,
                notification_head, notification_tail, boot_count, event_count,
                pc, handler, exited, resume, pushed, popped, outcome,
                config>>

(***************************************************************************)
(* Program constants.  The two array capacities are scaled down: every     *)
(* formula below is stated in terms of the names and not of the numbers.   *)
(***************************************************************************)
\* #define MAX_ACHIEVEMENTS 50, scaled
MAX_ACHIEVEMENTS == 3
\* #define MAX_NOTIFICATIONS 100, scaled
MAX_NOTIFICATIONS == 3
\* #define DATA_BUFFER_SIZE 4096
DATA_BUFFER_SIZE == 4096
\* sscanf field widths %31[^|], %63[^|], %127[^|]
IdWidth == 31
NameWidth == 63
DescWidth == 127

(***************************************************************************)
(* Characters and numbers as text.                                         *)
(***************************************************************************)
Digits == <<"0", "1", "2", "3", "4", "5", "6", "7", "8", "9">>

IsDigit(c) == \E i \in 1..10 : Digits[i] = c

DigitVal(c) == (CHOOSE i \in 1..10 : Digits[i] = c) - 1

\* isspace(), as the %d directive of sscanf uses it
IsSpace(c) == c \in {" ", "\t", "\n", "\r"}

RECURSIVE NatToStr(_)
NatToStr(n) ==
    IF n < 10 THEN <<Digits[n + 1]>>
    ELSE NatToStr(n \div 10) \o <<Digits[(n % 10) + 1]>>

\* printf's %d and %ld
IntToStr(n) == IF n < 0 THEN <<"-">> \o NatToStr(-n) ELSE NatToStr(n)

RECURSIVE Concat(_)
Concat(ss) == IF ss = <<>> THEN <<>> ELSE Head(ss) \o Concat(Tail(ss))

Str_header == <<"S","W","E","E","T","E","N","G","I","N","E","_",
                "D","A","T","A","_","v","1">>
Str_ACH == <<"A", "C", "H", ":">>
Str_boot_master == <<"b","o","o","t","_","m","a","s","t","e","r">>
Str_wayland_pro == <<"w","a","y","l","a","n","d","_","p","r","o">>
Str_BootMaster == <<"B","o","o","t"," ","M","a","s","t","e","r">>
Str_WaylandPro == <<"W","a","y","l","a","n","d"," ","P","r","o">>
Str_Boot10 == <<"B","o","o","t"," ","1","0"," ","t","i","m","e","s"," ",
                "s","u","c","c","e","s","s","f","u","l","l","y">>
Str_Process500 == <<"P","r","o","c","e","s","s"," ","5","0","0"," ",
                    "W","a","y","l","a","n","d"," ","e","v","e","n","t","s">>

(***************************************************************************)
(* Achievement records.  engine is a zero-initialised global, so a slot    *)
(* that was never written holds ZeroAchievement.                           *)
(***************************************************************************)
Ach(id, name, description, progress, target, unlocked, unlock_time) ==
    [id |-> id, name |-> name, description |-> description,
     progress |-> progress, target |-> target,
     unlocked |-> unlocked, unlock_time |-> unlock_time]

ZeroAchievement == Ach(<<>>, <<>>, <<>>, 0, 0, 0, 0)

achievement_count == Len(achievements)

\* The catalog load_engine_data seeds when no record was read
DefaultCatalog ==
    << [ZeroAchievement EXCEPT !.id = Str_boot_master,
                               !.name = Str_BootMaster,
                               !.description = Str_Boot10,
                               !.target = 10],
       [ZeroAchievement EXCEPT !.id = Str_wayland_pro,
                               !.name = Str_WaylandPro,
                               !.description = Str_Process500,
                               !.target = 500] >>

(***************************************************************************)
(* save_engine_data: the text written to the store.                        *)
(***************************************************************************)
\* "ACH:%s|%s|%s|%d|%d|%d|%ld\n"
FormatRecord(ach) ==
    Str_ACH \o ach.id \o <<"|">> \o ach.name \o <<"|">> \o ach.description
        \o <<"|">> \o IntToStr(ach.progress) \o <<"|">> \o IntToStr(ach.target)
        \o <<"|">> \o IntToStr(ach.unlocked)
        \o <<"|">> \o IntToStr(ach.unlock_time) \o <<"\n">>

\* the header line followed by one record line per achievement
SaveText(cat) ==
    Str_header \o <<"\n">>
        \o Concat([i \in 1..Len(cat) |-> FormatRecord(cat[i])])

\* snprintf keeps to the buffer only while the text fits it: beyond that
\* sizeof(buffer) - written wraps and the writes leave the buffer
SaveFits(cat) == Len(SaveText(cat)) < DATA_BUFFER_SIZE

\* What write(fd, buffer, written) can leave in the store.  When the text
\* does not fit, the bytes after the buffer are whatever the stack holds.
SaveOutcomes(cat) ==
    IF SaveFits(cat) THEN {SaveText(cat)}
    ELSE {SubSeq(SaveText(cat), 1, DATA_BUFFER_SIZE - 1) \o tailBytes :
            tailBytes \in {<<>>, <<"?">>, <<"\n">>}}

(***************************************************************************)
(* load_engine_data: strtok and sscanf.                                    *)
(***************************************************************************)
\* the first position from p on where s holds a character of stops, or
\* Len(s) + 1
FindStop(s, p, stops) ==
    CHOOSE i \in p..(Len(s) + 1) :
        /\ i = Len(s) + 1 \/ s[i] \in stops
        /\ \A j \in p..(i - 1) : s[j] \notin stops

\* strtok(buffer, "\n"): the non-empty runs of characters between newlines,
\* from position p on
RECURSIVE Tokens(_, _)
Tokens(s, p) ==
    IF p > Len(s) THEN <<>>
    ELSE LET e == FindStop(s, p, {"\n"})
         IN  (IF e = p THEN <<>> ELSE <<SubSeq(s, p, e - 1)>>)
                 \o Tokens(s, e + 1)

\* %N[^|]: the number of characters from position p that are not '|',
\* at most width
ScanRun(s, p, width) ==
    LET n == FindStop(s, p, {"|"}) - p
    IN  IF n > width THEN width ELSE n

RECURSIVE SkipSpace(_, _)
SkipSpace(s, p) ==
    IF p <= Len(s) /\ IsSpace(s[p]) THEN SkipSpace(s, p + 1) ELSE p

RECURSIVE DigitRun(_, _)
DigitRun(s, p) ==
    IF p <= Len(s) /\ IsDigit(s[p]) THEN 1 + DigitRun(s, p + 1) ELSE 0

RECURSIVE DigitsVal(_, _, _)
DigitsVal(s, p, n) ==
    IF n = 0 THEN 0
    ELSE DigitsVal(s, p, n - 1) * 10 + DigitVal(s[p + n - 1])

\* %d and %ld at position p: leading white space, an optional sign, digits.
\* ok is FALSE on a matching failure; next is the position after the number.
ScanInt(s, p) ==
    LET q == SkipSpace(s, p)
        signed == q <= Len(s) /\ s[q] \in {"-", "+"}
        d == IF signed THEN q + 1 ELSE q
        n == DigitRun(s, d)
        v == DigitsVal(s, d, n)
    IN  [ok |-> n > 0,
         val |-> IF signed /\ s[q] = "-" THEN -v ELSE v,
         next |-> d + n]

\* the literal '|' of the format at position p
Bar(s, p) == p <= Len(s) /\ s[p] = "|"

\* sscanf(line + 4, "%31[^|]|%63[^|]|%127[^|]|%d|%d|%d|%ld", ...) into slot:
\* the fields converted before the first failure are assigned, the others
\* keep what the slot held
Sscanf(s, slot) ==
    LET n1 == ScanRun(s, 1, IdWidth)
        a1 == [slot EXCEPT !.id = SubSeq(s, 1, n1)]
        p2 == n1 + 2
        n2 == ScanRun(s, p2, NameWidth)
        a2 == [a1 EXCEPT !.name = SubSeq(s, p2, p2 + n2 - 1)]
        p3 == p2 + n2 + 1
        n3 == ScanRun(s, p3, DescWidth)
        a3 == [a2 EXCEPT !.description = SubSeq(s, p3, p3 + n3 - 1)]
        i4 == ScanInt(s, p3 + n3 + 1)
        a4 == [a3 EXCEPT !.progress = i4.val]
        i5 == ScanInt(s, i4.next + 1)
        a5 == [a4 EXCEPT !.target = i5.val]
        i6 == ScanInt(s, i5.next + 1)
        a6 == [a5 EXCEPT !.unlocked = i6.val]
        i7 == ScanInt(s, i6.next + 1)
        a7 == [a6 EXCEPT !.unlock_time = i7.val]
    IN  IF n1 = 0 THEN slot
        ELSE IF ~Bar(s, n1 + 1) \/ n2 = 0 THEN a1
        ELSE IF ~Bar(s, p2 + n2) \/ n3 = 0 THEN a2
        ELSE IF ~Bar(s, p3 + n3) \/ ~i4.ok THEN a3
        ELSE IF ~Bar(s, i4.next) \/ ~i5.ok THEN a4
        ELSE IF ~Bar(s, i5.next) \/ ~i6.ok THEN a5
        ELSE IF ~Bar(s, i6.next) \/ ~i7.ok THEN a6
        ELSE a7

\* strncmp(line, "ACH:", 4) == 0
HasRecordPrefix(line) == Len(line) >= 4 /\ SubSeq(line, 1, 4) = Str_ACH

\* the while loop over the lines: every line with the record prefix takes
\* the next slot, whatever sscanf made of it
RECURSIVE ParseLines(_, _)
ParseLines(lines, cat) ==
    IF lines = <<>> \/ Len(cat) >= MAX_ACHIEVEMENTS THEN cat
    ELSE IF HasRecordPrefix(Head(lines))
         THEN ParseLines(Tail(lines),
                  Append(cat, Sscanf(SubSeq(Head(lines), 5, Len(Head(lines))),
                                     ZeroAchievement)))
         ELSE ParseLines(Tail(lines), cat)

\* The store file: absent (or unreadable: open fails), or its text
NoFile == [exists |-> FALSE, text |-> <<>>]

File(text) == [exists |-> TRUE, text |-> text]

\* read(fd, buffer, sizeof(buffer) - 1)
ReadBuffer(file) ==
    SubSeq(file.text, 1, IF Len(file.text) < DATA_BUFFER_SIZE - 1
                         THEN Len(file.text) ELSE DATA_BUFFER_SIZE - 1)

\* load_engine_data called by main on the zero-initialised engine: the
\* catalog it leaves.  A store that cannot be opened or reads as empty
\* returns -1 before anything is parsed or seeded.
LoadEngineData(file) ==
    IF ~file.exists \/ Len(ReadBuffer(file)) = 0 THEN <<>>
    ELSE LET cat == ParseLines(Tokens(ReadBuffer(file), 1), <<>>)
         IN  IF Len(cat) = 0 THEN DefaultCatalog ELSE cat

(***************************************************************************)
(* load_config: the configuration file.                                    *)
(***************************************************************************)
\* bound of the configuration inputs
MaxConfigLines == 2

Str_SWEETENGINE_true == <<"S","W","E","E","T","E","N","G","I","N","E","=","t","r","u","e">>
Str_SWEETENGINE_false == <<"S","W","E","E","T","E","N","G","I","N","E","=","f","a","l","s","e">>
Str_commented == <<"#"," ","S","W","E","E","T","E","N","G","I","N","E","=","t","r","u","e">>
Str_lower == <<"s","w","e","e","t","e","n","g","i","n","e","=","t","r","u","e">>

\* The configuration file: absent (fopen fails), or its lines as fgets
\* returns them (every line here is shorter than its 255 characters)
NoConfig == [exists |-> FALSE, lines |-> <<>>]

ConfigFile(lines) == [exists |-> TRUE, lines |-> lines]

\* strstr(line, key) != NULL
Strstr(line, key) ==
    \E i \in 1..(Len(line) - Len(key) + 1) :
        SubSeq(line, i, i + Len(key) - 1) = key

\* load_config's return value: 1 when some line holds "SWEETENGINE=true"
\* anywhere in it, 0 when none does or the file cannot be opened
LoadConfig(file) ==
    IF file.exists /\ \E i \in 1..Len(file.lines) :
                         Strstr(file.lines[i], Str_SWEETENGINE_true)
    THEN 1 ELSE 0

\* mutant: load_config assigns its result to engine.enabled
Reloaded_Mut(file, was) == LoadConfig(file)

\* engine.enabled after load_config: set to 1 where the key is found, and
\* not written on either path that returns 0
Reloaded(file, was) == IF LoadConfig(file) = 1 THEN 1 ELSE was

\* the lines the configuration files are made of
ConfigLines ==
    {Str_SWEETENGINE_true, Str_SWEETENGINE_false, Str_commented, Str_lower}

ConfigFiles ==
    {NoConfig} \cup
    {ConfigFile(ls) : ls \in UNION {[1..n -> ConfigLines] : n \in 0..MaxConfigLines}}

(***************************************************************************)
(* SpecStore: the store across process lifetimes.                          *)
(***************************************************************************)
\* bounds of the store inputs
MaxLines == 3

\* records whose text fields are non-empty and hold no '|' and no newline
GoodRecords ==
    { Ach(<<"a">>, <<"A", " ", "a">>, <<"x">>, 3, 5, 0, 0),
      Ach(Str_boot_master, <<"B">>, <<"d">>, -1, 10, 1, 7) }

\* a record line as save_engine_data writes it, without its newline
RecordLine(ach) == SubSeq(FormatRecord(ach), 1, Len(FormatRecord(ach)) - 1)

\* lines that are no well-formed record: an empty record, missing fields,
\* a non-numeric field, and a line without the record prefix
MalformedLines ==
    { Str_ACH,
      Str_ACH \o <<"z", "|", "Z">>,
      Str_ACH \o <<"z", "|", "Z", "|", "d", "|", "x", "|", "1", "|", "0", "|", "0">>,
      <<"j", "u", "n", "k">> }

LineItems ==
    { [good |-> TRUE, rec |-> r, text |-> RecordLine(r)] : r \in GoodRecords }
    \cup { [good |-> FALSE, rec |-> ZeroAchievement, text |-> m] :
             m \in MalformedLines }

LineSeqs == UNION { [1..n -> LineItems] : n \in 0..MaxLines }

\* the text of a store: an optional header line, then the lines
StoreText(header, ls) ==
    (IF header THEN Str_header \o <<"\n">> ELSE <<>>)
        \o Concat([i \in 1..Len(ls) |-> ls[i].text \o <<"\n">>])

EngineIdle ==
    /\ enabled = 0
    /\ data_mutex = "free"
    /\ notification_queue = <<>>
    /\ notification_count = 0
    /\ notification_head = 0
    /\ notification_tail = 0
    /\ boot_count = 0
    /\ event_count = 0
    /\ pc = <<>>
    /\ handler = <<>>
    /\ exited = FALSE
    /\ resume = <<>>
    /\ pushed = <<>>
    /\ popped = <<>>
    /\ outcome = <<>>
    /\ config = NoConfig

\* a process about to start on a store that is absent, empty, or made of
\* up to MaxLines lines
StoreInit ==
    /\ EngineIdle
    /\ phase = "boot"
    /\ achievements = <<>>
    /\ savedCat = <<>>
    /\ lastOp = "none"
    /\ \/ /\ store \in {NoFile, File(<<>>)}
          /\ srcLines = <<>>
       \/ \E header \in BOOLEAN, ls \in LineSeqs :
            /\ header \/ ls # <<>>
            /\ store = File(StoreText(header, ls))
            /\ srcLines = ls

\* main: load_engine_data() on the zero-initialised engine; its return
\* value is ignored and startup goes on
StartupLoad ==
    /\ phase = "boot"
    /\ achievements' = LoadEngineData(store)
    /\ phase' = "loaded"
    /\ lastOp' = IF lastOp = "saved" THEN "reloaded" ELSE "loaded"
    /\ UNCHANGED <<engineVars, store, savedCat, srcLines,
                   config>>

\* signal_handler: save_engine_data() of the catalog, then exit(0).  open
\* may fail, and the store then keeps its content.
ShutdownSave ==
    /\ phase = "loaded"
    /\ \/ /\ \E text \in SaveOutcomes(achievements) : store' = File(text)
          /\ lastOp' = "saved"
       \/ /\ store' = store
          /\ lastOp' = "save_failed"
    /\ savedCat' = achievements
    /\ phase' = "saved"
    /\ UNCHANGED <<engineVars, achievements, srcLines,
                   config>>

\* the next start of the process: engine = {0}
Restart ==
    /\ phase = "saved"
    /\ achievements' = <<>>
    /\ phase' = "boot"
    /\ UNCHANGED <<engineVars, store, savedCat, srcLines, lastOp>>

StoreNext == StartupLoad \/ ShutdownSave \/ Restart

SpecStore == StoreInit /\ [][StoreNext]_vars

(***************************************************************************)
(* Spec: the running engine.                                               *)
(***************************************************************************)
\* bounds of the engine model
MaxEventCount == 4
MaxPushes == 4
MaxTime == 2

\* the target of the activity achievement (500 in the default catalog),
\* scaled to a value event_count reaches
ActivityTarget == 3

\* event_count % 50 in wayland_event_listener, scaled
EventModulus == 3
\* rand() % 10 in wayland_event_listener, scaled
RandRange == 3

Threads == {"monitor", "hook", "dispatcher", "wayland"}

Evaluators == {"monitor", "hook"}

\* the threads a process-directed signal can interrupt
AllThreads == Threads \cup {"main"}

\* time(NULL)
Times == 1..MaxTime

\* check_achievement_progress: static int wayland_events = 0, never written
wayland_events == 0

Notif(message, type, priority) ==
    [message |-> message, type |-> type, priority |-> priority]

ZeroNotification == Notif(<<>>, "", 0)

Slots == 0..(MAX_NOTIFICATIONS - 1)

\* the stores the engine is started on: one whose boot achievement unlocks
\* on the second evaluation and whose activity achievement is locked, and
\* one whose boot achievement is unlocked already and whose activity
\* achievement has target 0
StartupStores ==
    { File(SaveText(<< Ach(Str_boot_master, <<"B">>, <<"b">>, 0, 2, 0, 0),
                       Ach(Str_wayland_pro, <<"W">>, <<"w">>, 0, ActivityTarget, 0, 0) >>)),
      File(SaveText(<< Ach(Str_boot_master, <<"B">>, <<"b">>, 0, 1, 1, 5),
                       Ach(Str_wayland_pro, <<"W">>, <<"w">>, 0, 0, 0, 0) >>)) }

\* main has loaded the store and created the four workers
EngineStart ==
    /\ enabled = 1
    /\ data_mutex = "free"
    /\ store \in StartupStores
    /\ achievements = LoadEngineData(store)
    /\ notification_queue = [i \in Slots |-> ZeroNotification]
    /\ notification_count = 0
    /\ notification_head = 0
    /\ notification_tail = 0
    /\ boot_count = 0
    /\ event_count = 0
    /\ pc = [t \in AllThreads |-> "loop"]
    /\ handler = [on |-> "none", pc |-> "idle"]
    /\ exited = FALSE
    /\ resume = [t \in Evaluators |-> <<0, 0>>]
    /\ pushed = <<>>
    /\ popped = <<>>
    /\ outcome = [t \in Threads |-> "none"]
    /\ lastOp = "none"
    /\ phase = "engine"
    /\ savedCat = <<>>
    /\ srcLines = <<>>

\* load_config returned 1 at startup: the file held the key.  Spec follows
\* the workers and the signal handler while main waits in read() for a
\* change of the configuration directory; SpecConfig follows main's reloads.
Init ==
    /\ EngineStart
    /\ config = ConfigFile(<<Str_SWEETENGINE_true>>)

\* a thread runs unless the process has exited or the signal handler is
\* running on it
Running(t) == ~exited /\ handler.on # t

\* where thread t stands: in the handler when it runs on t
Pos(t) == IF handler.on = t THEN handler.pc ELSE pc[t]

(***************************************************************************)
(* The worker loops: while (engine.enabled) { lock; body; unlock; sleep }  *)
(***************************************************************************)
\* while (engine.enabled) of the evaluator, the watcher (whose read() has
\* returned an event) and the dispatcher
LoopCheck(t) ==
    /\ t \in Threads \ {"wayland"}
    /\ Running(t)
    /\ pc[t] = "loop"
    /\ pc' = [pc EXCEPT ![t] = IF enabled # 0 THEN "lock" ELSE "done"]
    /\ UNCHANGED <<enabled, data_mutex, achievements, notification_queue,
                   notification_count, notification_head, notification_tail,
                   boot_count, event_count, store, handler, exited, resume,
                   pushed, popped, outcome, lastOp, phase, savedCat, srcLines,
                   config>>

\* while (engine.enabled) { event_count += rand() % 10; ...
WaylandLoop ==
    /\ Running("wayland")
    /\ pc["wayland"] = "loop"
    /\ Len(pushed) < MaxPushes
    /\ IF enabled # 0
       THEN /\ \E r \in 0..(RandRange - 1) :
                 /\ event_count + r <= MaxEventCount
                 /\ event_count' = event_count + r
            /\ pc' = [pc EXCEPT !["wayland"] = "lock"]
       ELSE /\ pc' = [pc EXCEPT !["wayland"] = "done"]
            /\ UNCHANGED event_count
    /\ UNCHANGED <<enabled, data_mutex, achievements, notification_queue,
                   notification_count, notification_head, notification_tail,
                   boot_count, store, handler, exited, resume, pushed, popped,
                   outcome, lastOp, phase, savedCat, srcLines,
                   config>>

\* mutant: the lock is granted while another thread holds it
Acquirable_Mut == TRUE

\* pthread_mutex_lock returns once no thread holds the mutex
Acquirable == data_mutex = "free"

\* pthread_mutex_lock(&engine.data_mutex) in a worker loop
Lock(t) ==
    /\ t \in Threads
    /\ Running(t)
    /\ pc[t] = "lock"
    /\ Acquirable
    /\ data_mutex' = t
    /\ pc' = [pc EXCEPT ![t] = "cs"]
    /\ UNCHANGED <<enabled, achievements, notification_queue,
                   notification_count, notification_head, notification_tail,
                   boot_count, event_count, store, handler, exited, resume,
                   pushed, popped, outcome, lastOp, phase, savedCat, srcLines,
                   config>>

\* pthread_mutex_unlock(&engine.data_mutex) in a worker loop, and the sleep
Unlock(t) ==
    /\ t \in Threads
    /\ Running(t)
    /\ pc[t] = "unlock"
    /\ data_mutex' = "free"
    /\ pc' = [pc EXCEPT ![t] = IF t = "dispatcher" THEN "ambient" ELSE "loop"]
    /\ outcome' = [outcome EXCEPT ![t] = "none"]
    /\ UNCHANGED <<enabled, achievements, notification_queue,
                   notification_count, notification_head, notification_tail,
                   boot_count, event_count, store, handler, exited, resume,
                   pushed, popped, lastOp, phase, savedCat, srcLines,
                   config>>

(***************************************************************************)
(* check_achievement_progress and unlock_achievement.                      *)
(***************************************************************************)
\* mutant: the unlocked flag is not looked at
NotUnlocked_Mut(ach) == TRUE

\* !engine.achievements[i].unlocked
NotUnlocked(ach) == ach.unlocked = 0

\* the id and the counter of the first and of the second for loop
LoopId(loop) == IF loop = 1 THEN Str_boot_master ELSE Str_wayland_pro

LoopCounter(loop, bc) == IF loop = 1 THEN bc ELSE wayland_events

\* the if of either loop at entry i
Reached(cat, loop, i, bc) ==
    /\ cat[i].id = LoopId(loop)
    /\ LoopCounter(loop, bc) >= cat[i].target
    /\ NotUnlocked(cat[i])

\* the first iteration from <<loop, i>> on whose if holds, <<0, 0>> if none
RECURSIVE NextFiring(_, _, _, _)
NextFiring(cat, loop, i, bc) ==
    IF loop > 2 THEN <<0, 0>>
    ELSE IF i > Len(cat) THEN NextFiring(cat, loop + 1, 1, bc)
    ELSE IF Reached(cat, loop, i, bc) THEN <<loop, i>>
    ELSE NextFiring(cat, loop, i + 1, bc)

\* unlock_achievement: the entry it changes, the first with this id that is
\* not unlocked (0 if there is none)
UnlockIndex(cat, id) ==
    IF \E j \in 1..Len(cat) : cat[j].id = id /\ NotUnlocked(cat[j])
    THEN CHOOSE j \in 1..Len(cat) :
            /\ cat[j].id = id /\ NotUnlocked(cat[j])
            /\ \A k \in 1..(j - 1) : ~(cat[k].id = id /\ NotUnlocked(cat[k]))
    ELSE 0

\* unlock_achievement: unlocked = 1 and unlock_time = time(NULL)
UnlockAchievement(cat, id, now) ==
    LET j == UnlockIndex(cat, id)
    IN  IF j = 0 THEN cat
        ELSE [cat EXCEPT ![j].unlocked = 1, ![j].unlock_time = now]

\* check_achievement_progress, called with data_mutex held, up to its end or
\* to the first unlock.  unlock_achievement sets the entry, sends the
\* notification over the socket (which may fail), logs, and calls
\* save_engine_data, whose first statement locks data_mutex: the thread
\* stands at that lock.  When it returns from there it is back here with
\* the loops where they were.
CheckAchievementProgress(t) ==
    /\ t \in Evaluators
    /\ Running(t)
    /\ pc[t] = "cs"
    /\ LET fresh == resume[t] = <<0, 0>>
           bc == IF fresh THEN boot_count + 1 ELSE boot_count
           from == IF fresh THEN <<1, 1>> ELSE resume[t]
           hit == NextFiring(achievements, from[1], from[2], bc)
       IN  /\ boot_count' = bc
           /\ IF hit = <<0, 0>>
              THEN /\ UNCHANGED achievements
                   /\ pc' = [pc EXCEPT ![t] = "unlock"]
                   /\ resume' = [resume EXCEPT ![t] = <<0, 0>>]
                   /\ outcome' = [outcome EXCEPT ![t] = "checked"]
              ELSE /\ \E now \in Times :
                        achievements' =
                            UnlockAchievement(achievements, LoopId(hit[1]), now)
                   /\ \E sent \in BOOLEAN :
                        outcome' = [outcome EXCEPT ![t] =
                            IF sent THEN "unlock_sent" ELSE "unlock_send_failed"]
                   /\ pc' = [pc EXCEPT ![t] = "save_lock"]
                   /\ resume' = [resume EXCEPT ![t] = <<hit[1], hit[2] + 1>>]
    /\ UNCHANGED <<enabled, data_mutex, notification_queue,
                   notification_count, notification_head, notification_tail,
                   event_count, store, handler, exited, pushed, popped,
                   lastOp, phase, savedCat, srcLines,
                   config>>

(***************************************************************************)
(* notification_dispatcher_thread.                                         *)
(***************************************************************************)
\* mutant: the dispatcher pops without testing for emptiness
QueueNotEmpty_Mut == TRUE

\* engine.notification_head != engine.notification_tail
QueueNotEmpty == notification_head # notification_tail

\* mutant: an index advances by two slots
NextSlot_Mut(index) == (index + 2) % MAX_NOTIFICATIONS

\* (index + 1) % MAX_NOTIFICATIONS
NextSlot(index) == (index + 1) % MAX_NOTIFICATIONS

\* mutant: the dispatcher reads the newest slot
PopSlot_Mut ==
    (notification_tail + MAX_NOTIFICATIONS - 1) % MAX_NOTIFICATIONS

\* the slot the dispatcher reads
PopSlot == notification_head

\* mutant: a notification that could not be sent stays in the queue
Dequeues_Mut(sent) == sent

\* send_notification(notif.message, notif.type, notif.priority); its
\* result is not looked at: the notification leaves the queue whether it
\* was sent or not
Dequeues(sent) == TRUE

\* the critical section of the dispatcher: with the queue not empty, the
\* notification at head is handed to send_notification (which may fail to
\* connect), head advances and count goes down
DispatchQueued ==
    /\ Running("dispatcher")
    /\ pc["dispatcher"] = "cs"
    /\ IF QueueNotEmpty
       THEN \E sent \in BOOLEAN :
            /\ popped' = Append(popped, notification_queue[PopSlot])
            /\ outcome' = [outcome EXCEPT !["dispatcher"] =
                     IF sent THEN "pop_sent" ELSE "pop_send_failed"]
            /\ IF Dequeues(sent)
               THEN /\ notification_head' = NextSlot(notification_head)
                    /\ notification_count' = notification_count - 1
               ELSE UNCHANGED <<notification_head, notification_count>>
       ELSE /\ UNCHANGED <<popped, notification_head, notification_count>>
            /\ outcome' = [outcome EXCEPT !["dispatcher"] = "pop_empty"]
    /\ pc' = [pc EXCEPT !["dispatcher"] = "unlock"]
    /\ UNCHANGED <<enabled, data_mutex, achievements, notification_queue,
                   notification_tail, boot_count, event_count, store, handler,
                   exited, resume, pushed, lastOp, phase, savedCat, srcLines,
                   config>>

\* mutant: the ambient notification goes through the queue
Ambient_Mut ==
    /\ Running("dispatcher")
    /\ pc["dispatcher"] = "ambient"
    /\ notification_queue' =
         [notification_queue EXCEPT ![notification_tail] =
             Notif(<<"ambient">>, "random", 2)]
    /\ notification_tail' = NextSlot(notification_tail)
    /\ notification_count' = notification_count + 1
    /\ pc' = [pc EXCEPT !["dispatcher"] = "loop"]
    /\ UNCHANGED <<enabled, data_mutex, achievements, notification_head,
                   boot_count, event_count, store, handler, exited, resume,
                   pushed, popped, outcome, lastOp, phase, savedCat, srcLines,
                   config>>

\* if (rand() % 100 < 5) generate_random_notification(): send_notification
\* of a message of the static catalog, outside the lock, which may fail
Ambient ==
    /\ Running("dispatcher")
    /\ pc["dispatcher"] = "ambient"
    /\ pc' = [pc EXCEPT !["dispatcher"] = "loop"]
    /\ UNCHANGED <<enabled, data_mutex, achievements, notification_queue,
                   notification_count, notification_head, notification_tail,
                   boot_count, event_count, store, handler, exited, resume,
                   pushed, popped, outcome, lastOp, phase, savedCat, srcLines,
                   config>>

(***************************************************************************)
(* wayland_event_listener.                                                 *)
(***************************************************************************)
\* event_count % 50 == 0
PushDue == event_count % EventModulus = 0

\* mutant: every slot is filled
HasRoom_Mut == notification_count < MAX_NOTIFICATIONS

\* engine.notification_count < MAX_NOTIFICATIONS - 1
HasRoom == notification_count < MAX_NOTIFICATIONS - 1

\* "Wayland events: %d processed", "system", priority 1
ProgressNotification == Notif(<<"Wayland events", event_count>>, "system", 1)

\* the critical section of the compositor worker
QueueProgress ==
    /\ Running("wayland")
    /\ pc["wayland"] = "cs"
    /\ IF PushDue /\ HasRoom
       THEN /\ notification_queue' =
                 [notification_queue EXCEPT ![notification_tail] =
                     ProgressNotification]
            /\ notification_tail' = NextSlot(notification_tail)
            /\ notification_count' = notification_count + 1
            /\ pushed' = Append(pushed, ProgressNotification)
            /\ outcome' = [outcome EXCEPT !["wayland"] = "pushed"]
       ELSE /\ UNCHANGED <<notification_queue, notification_tail,
                           notification_count, pushed>>
            /\ outcome' = [outcome EXCEPT !["wayland"] =
                   IF PushDue THEN "push_rejected" ELSE "no_push"]
    /\ pc' = [pc EXCEPT !["wayland"] = "unlock"]
    /\ UNCHANGED <<enabled, data_mutex, achievements, notification_head,
                   boot_count, event_count, store, handler, exited, resume,
                   popped, lastOp, phase, savedCat, srcLines,
                   config>>

(***************************************************************************)
(* signal_handler and save_engine_data.                                    *)
(***************************************************************************)
SetPos(t, p) ==
    IF handler.on = t
    THEN handler' = [handler EXCEPT !.pc = p] /\ UNCHANGED pc
    ELSE pc' = [pc EXCEPT ![t] = p] /\ UNCHANGED handler

\* SIGINT or SIGTERM is delivered on thread t: engine.enabled = 0, and the
\* handler calls save_engine_data
Signal(t) ==
    /\ t \in AllThreads
    /\ ~exited
    /\ handler.on = "none"
    /\ pc[t] # "done"
    /\ enabled' = 0
    /\ handler' = [on |-> t, pc |-> "save_lock"]
    /\ UNCHANGED <<data_mutex, achievements, notification_queue,
                   notification_count, notification_head, notification_tail,
                   boot_count, event_count, store, pc, exited, resume, pushed,
                   popped, outcome, lastOp, phase, savedCat, srcLines,
                   config>>

\* save_engine_data: pthread_mutex_lock(&engine.data_mutex).  data_mutex has
\* the default attributes: on Linux a thread that locks it again while it
\* holds it waits for ever, so the lock is taken only when it is free.
SaveLock(t) ==
    /\ t \in AllThreads
    /\ ~exited
    /\ Pos(t) = "save_lock"
    /\ Acquirable
    /\ data_mutex' = t
    /\ SetPos(t, "save_write")
    /\ UNCHANGED <<enabled, achievements, notification_queue,
                   notification_count, notification_head, notification_tail,
                   boot_count, event_count, store, exited, resume, pushed,
                   popped, outcome, lastOp, phase, savedCat, srcLines,
                   config>>

\* save_engine_data: open, snprintf, write, close.  When open fails the
\* store keeps its content.
SaveWrite(t) ==
    /\ t \in AllThreads
    /\ ~exited
    /\ Pos(t) = "save_write"
    /\ \/ \E text \in SaveOutcomes(achievements) : store' = File(text)
       \/ store' = store
    /\ SetPos(t, "save_unlock")
    /\ UNCHANGED <<enabled, data_mutex, achievements, notification_queue,
                   notification_count, notification_head, notification_tail,
                   boot_count, event_count, exited, resume, pushed, popped,
                   outcome, lastOp, phase, savedCat, srcLines,
                   config>>

\* save_engine_data: pthread_mutex_unlock and return, to signal_handler's
\* exit(0) or to unlock_achievement's break
SaveUnlock(t) ==
    /\ t \in AllThreads
    /\ ~exited
    /\ Pos(t) = "save_unlock"
    /\ data_mutex' = "free"
    /\ SetPos(t, IF handler.on = t THEN "exit" ELSE "cs")
    /\ UNCHANGED <<enabled, achievements, notification_queue,
                   notification_count, notification_head, notification_tail,
                   boot_count, event_count, store, exited, resume, pushed,
                   popped, outcome, lastOp, phase, savedCat, srcLines,
                   config>>

\* signal_handler: exit(0)
Exit ==
    /\ ~exited
    /\ handler.pc = "exit"
    /\ exited' = TRUE
    /\ UNCHANGED <<enabled, data_mutex, achievements, notification_queue,
                   notification_count, notification_head, notification_tail,
                   boot_count, event_count, store, pc, handler, resume, pushed,
                   popped, outcome, lastOp, phase, savedCat, srcLines,
                   config>>

(***************************************************************************)
(* main after the workers are started: the configuration reload loop.      *)
(***************************************************************************)
\* while (engine.enabled) { read(inotify_fd, ...); if (len > 0)
\* load_config(); usleep(100000); }: main waits in read, which it entered
\* with engine.enabled set.  An event in the configuration directory makes
\* it call load_config on the file as it then is: a file that holds the key
\* sets engine.enabled = 1, any other file or none leaves it as it is.
ReloadConfig(file) ==
    /\ Running("main")
    /\ pc["main"] = "loop"
    /\ config' = file
    /\ enabled' = Reloaded(file, enabled)
    /\ UNCHANGED <<data_mutex, achievements, notification_queue,
                   notification_count, notification_head, notification_tail,
                   boot_count, event_count, store, pc, handler, exited, resume,
                   pushed, popped, outcome, lastOp, phase, savedCat, srcLines>>

\* main finds engine.enabled = 0 at the top of its loop and goes on to
\* pthread_join, where it waits for the workers to return
MainLeave ==
    /\ Running("main")
    /\ pc["main"] = "loop"
    /\ enabled = 0
    /\ pc' = [pc EXCEPT !["main"] = "join"]
    /\ UNCHANGED <<enabled, data_mutex, achievements, notification_queue,
                   notification_count, notification_head, notification_tail,
                   boot_count, event_count, store, handler, exited, resume,
                   pushed, popped, outcome, lastOp, phase, savedCat, srcLines,
                   config>>

Next ==
    \/ \E t \in Threads : LoopCheck(t)
    \/ WaylandLoop
    \/ \E t \in Threads : Lock(t)
    \/ \E t \in Threads : Unlock(t)
    \/ \E t \in Evaluators : CheckAchievementProgress(t)
    \/ DispatchQueued
    \/ Ambient
    \/ QueueProgress
    \/ \E t \in AllThreads : Signal(t)
    \/ \E t \in AllThreads : SaveLock(t)
    \/ \E t \in AllThreads : SaveWrite(t)
    \/ \E t \in AllThreads : SaveUnlock(t)
    \/ Exit

Spec == Init /\ [][Next]_vars

\* the scheduler runs a thread that can take a step
FairSpec == Spec /\ WF_vars(Next)

(***************************************************************************)
(* SpecConfig: engine.enabled is written by load_config and by             *)
(* signal_handler only; the workers read it.  The engine was started by a  *)
(* file that holds the key, and the file changes between reloads.          *)
(***************************************************************************)
ConfigInit ==
    /\ EngineStart
    /\ config \in {f \in ConfigFiles : LoadConfig(f) = 1}

ConfigNext ==
    \/ \E f \in ConfigFiles : ReloadConfig(f)
    \/ MainLeave
    \/ \E t \in AllThreads : Signal(t)
    \/ \E t \in AllThreads : SaveLock(t)
    \/ \E t \in AllThreads : SaveWrite(t)
    \/ \E t \in AllThreads : SaveUnlock(t)
    \/ Exit

SpecConfig == ConfigInit /\ [][ConfigNext]_vars

(***************************************************************************)
(* Claims about the persistence store (SpecStore).                         *)
(***************************************************************************)
\* the lines strtok finds in the store
StoreLines == IF store.exists THEN Tokens(ReadBuffer(store), 1) ELSE <<>>

NoRecordLines == \A i \in 1..Len(StoreLines) : ~HasRecordPrefix(StoreLines[i])

\* C7: after the startup load of a store that is missing, unreadable or
\* empty, or that has content but no achievement record, the engine holds
\* the default catalog: boot_master (target 10) and the activity
\* achievement (target 500), both locked.
C7_DefaultsSeeded ==
    (phase = "loaded" /\ NoRecordLines) =>
        /\ achievement_count = 2
        /\ achievements = DefaultCatalog
        /\ \A i \in 1..2 : achievements[i].unlocked = 0

GoodLines == SelectSeq(srcLines, LAMBDA l : l.good)

OneMalformedLine ==
    /\ Len(srcLines) = Len(GoodLines) + 1
    /\ Len(GoodLines) >= 1

\* C8: when the store is made of well-formed record lines and one malformed
\* line at any position, load_engine_data adds no entry for the malformed
\* line and loads every well-formed record with all its fields.
C8_MalformedSkipped ==
    (phase = "loaded" /\ lastOp = "loaded" /\ OneMalformedLine) =>
        achievements = [i \in 1..Len(GoodLines) |-> GoodLines[i].rec]

\* C9: a catalog that save_engine_data wrote and load_engine_data then read
\* has the same records, in the same order, with every field equal.
C9_RoundTrip ==
    (phase = "loaded" /\ lastOp = "reloaded") => achievements = savedCat

(***************************************************************************)
(* Claims about the running engine (Spec).                                 *)
(***************************************************************************)
\* a step that takes some achievement from locked to unlocked
UnlockStep ==
    \E i \in 1..Len(achievements) :
        achievements[i].unlocked = 0 /\ achievements'[i].unlocked # 0

\* C1: in every step of every interleaving of the evaluator and the
\* change-signal watcher, an achievement that is unlocked stays exactly as
\* it is (unlocked and unlock_time included), and one that is locked either
\* stays as it is or becomes unlocked with its unlock_time written in that
\* same step and nothing else changed.
C1_UnlockOnce ==
    [][/\ Len(achievements') = Len(achievements)
       /\ \A i \in 1..Len(achievements) :
            LET a == achievements[i]
                b == achievements'[i]
            IN  /\ a.unlocked # 0 => b = a
                /\ a.unlocked = 0 =>
                     \/ b = a
                     \/ /\ b.unlocked = 1
                        /\ b.unlock_time \in Times
                        /\ b = [a EXCEPT !.unlocked = 1,
                                         !.unlock_time = b.unlock_time]]_vars

\* an evaluation has unlocked one achievement and has left alone another
\* that was unlocked before and whose counter has reached its target
C1_Witness ==
    /\ \E t \in Evaluators : outcome[t] \in {"unlock_sent", "unlock_send_failed"}
    /\ \E i, j \in 1..Len(achievements) :
         /\ achievements[i].unlocked = 1
         /\ achievements[i].unlock_time = 5
         /\ achievements[i].id = Str_boot_master
         /\ boot_count >= achievements[i].target
         /\ achievements[j].unlocked = 1
         /\ achievements[j].unlock_time \in Times

\* a dispatcher critical section entered with notification_count = 0
EmptyTick ==
    /\ pc["dispatcher"] = "cs"
    /\ pc'["dispatcher"] = "unlock"
    /\ notification_count = 0

\* C2: notification_count stays within 0 .. MAX_NOTIFICATIONS, and a
\* dispatcher tick on an empty queue hands nothing to send_notification and
\* leaves the queue, head, tail and count as they are.
C2_CountInRange ==
    /\ [](notification_count \in 0..MAX_NOTIFICATIONS)
    /\ [][EmptyTick =>
            /\ popped' = popped
            /\ outcome'["dispatcher"] = "pop_empty"
            /\ UNCHANGED <<notification_queue, notification_head,
                            notification_tail, notification_count>>]_vars

\* the dispatcher has found the queue empty after it had been filled and
\* drained
C2_Witness ==
    /\ outcome["dispatcher"] = "pop_empty"
    /\ notification_count = 0
    /\ Len(popped) >= MAX_NOTIFICATIONS - 1

\* C3: the notifications the dispatcher has handed to send_notification are
\* the first ones pushed, in the order they were pushed, each once; and the
\* slots from head hold, in order, exactly the pushed notifications that
\* were not popped yet, so none was overwritten.
C3_Fifo ==
    /\ Len(popped) <= Len(pushed)
    /\ popped = SubSeq(pushed, 1, Len(popped))
    /\ notification_count = Len(pushed) - Len(popped)
    /\ \A k \in 1..notification_count :
         notification_queue[(notification_head + k - 1) % MAX_NOTIFICATIONS]
             = pushed[Len(popped) + k]

\* two different notifications were delivered after the tail had wrapped
C3_Witness ==
    /\ Len(pushed) > MAX_NOTIFICATIONS
    /\ Len(popped) >= 2
    /\ popped[1] # popped[2]

\* a compositor critical section in which a notification is due
PushAttempt ==
    /\ pc["wayland"] = "cs"
    /\ pc'["wayland"] = "unlock"
    /\ event_count % EventModulus = 0

PushAccepted ==
    /\ notification_queue' =
         [notification_queue EXCEPT ![notification_tail] = ProgressNotification]
    /\ notification_tail' = (notification_tail + 1) % MAX_NOTIFICATIONS
    /\ notification_count' = notification_count + 1
    /\ notification_head' = notification_head

PushRejected ==
    UNCHANGED <<notification_queue, notification_head, notification_tail,
                notification_count>>

\* C4 as claimed: a push is accepted while fewer than MAX_NOTIFICATIONS are
\* queued, and rejected without any change at MAX_NOTIFICATIONS.
C4_RetainsN ==
    [][PushAttempt =>
         IF notification_count < MAX_NOTIFICATIONS
         THEN PushAccepted ELSE PushRejected]_vars

\* C4 amended: a push is accepted while fewer than MAX_NOTIFICATIONS - 1
\* are queued and rejected without any change from then on, so at most
\* MAX_NOTIFICATIONS - 1 notifications are retained.
C4_RetainsNMinus1 ==
    /\ [](notification_count <= MAX_NOTIFICATIONS - 1)
    /\ [][PushAttempt =>
            IF notification_count < MAX_NOTIFICATIONS - 1
            THEN PushAccepted ELSE PushRejected]_vars

\* pushes from the empty queue with no pop in between: the queue holds
\* MAX_NOTIFICATIONS - 1 and the next push was rejected
C4_Witness ==
    /\ outcome["wayland"] = "push_rejected"
    /\ popped = <<>>
    /\ Len(pushed) = MAX_NOTIFICATIONS - 1
    /\ notification_count = MAX_NOTIFICATIONS - 1

\* C5: a step that unlocks an achievement puts one achievement notification
\* into the queue, at tail, with the lock held.
C5_UnlockEnqueues ==
    [][UnlockStep =>
         /\ notification_count' = notification_count + 1
         /\ notification_tail' = (notification_tail + 1) % MAX_NOTIFICATIONS
         /\ notification_queue'[notification_tail].type = "achievement"
         /\ data_mutex \in Evaluators]_vars

\* the store holds entry i of the catalog as unlocked, with its unlock time
Persisted(i) ==
    LET cat == LoadEngineData(store)
    IN  /\ i <= Len(cat)
        /\ cat[i].id = achievements[i].id
        /\ cat[i].unlocked = 1
        /\ cat[i].unlock_time # 0
        /\ cat[i].unlock_time = achievements[i].unlock_time

\* an achievement that this run of the engine unlocked and that the store
\* does not hold as unlocked
Unpersisted ==
    \E i \in 1..Len(achievements) :
        /\ achievements[i].unlocked = 1
        /\ achievements[i].unlock_time \in Times
        /\ ~Persisted(i)

\* C6: every unlock is followed by a completed save: the store eventually
\* holds the unlocked achievement with its non-zero unlock time.
C6_UnlockThenSaved == Unpersisted ~> ~Unpersisted

\* a dispatcher critical section whose send_notification fails
FailedPop ==
    /\ pc["dispatcher"] = "cs"
    /\ outcome'["dispatcher"] = "pop_send_failed"

\* C10: when send_notification fails for the notification the dispatcher
\* popped, count goes down by one and head advances by one, nothing is put
\* back into the queue and nothing else is sent in that critical section;
\* the dispatcher then holds the lock at its unlock, and its next steps
\* release the lock and take it back to the top of its loop.
C10_FailedDeliveryDrops ==
    /\ [][FailedPop =>
            /\ notification_count' = notification_count - 1
            /\ notification_head' = (notification_head + 1) % MAX_NOTIFICATIONS
            /\ notification_tail' = notification_tail
            /\ notification_queue' = notification_queue
            /\ pushed' = pushed
            /\ Len(popped') = Len(popped) + 1
            /\ pc'["dispatcher"] = "unlock"
            /\ data_mutex' = "dispatcher"]_vars
    /\ [][pc["dispatcher"] = "unlock" /\ pc'["dispatcher"] # "unlock" =>
            /\ data_mutex' = "free"
            /\ pc'["dispatcher"] = "ambient"]_vars
    /\ [][pc["dispatcher"] = "ambient" /\ pc'["dispatcher"] # "ambient" =>
            /\ pc'["dispatcher"] = "loop"
            /\ PushRejected]_vars
    /\ [](pc["dispatcher"] = "unlock" /\ Running("dispatcher") =>
            ENABLED Unlock("dispatcher"))

\* the dispatcher has popped a notification whose delivery failed: it is
\* at its unlock, holding the lock, and the queue is one shorter
C10_Witness ==
    /\ outcome["dispatcher"] = "pop_send_failed"
    /\ pc["dispatcher"] = "unlock"
    /\ data_mutex = "dispatcher"
    /\ Len(popped) = 1
    /\ notification_count = Len(pushed) - 1

(***************************************************************************)
(* Claims about shutdown, progress and the lock (Spec, FairSpec).          *)
(***************************************************************************)
\* signal_handler has been entered and the process has not exited
Signalled == handler.on # "none" /\ ~exited

\* C11: from every state of the running engine, whichever thread holds
\* data_mutex and whichever thread the signal interrupts, the arrival of
\* SIGINT/SIGTERM is eventually followed by exit(0) (which signal_handler
\* reaches only through save_engine_data).
C11_SignalThenExit == Signalled ~> exited

\* C12: when an evaluator tick ends, no activity achievement is left locked
\* whose target the compositor worker's counter has reached.
C12_ActivityUnlocks ==
    [][\A t \in Evaluators :
         (pc[t] = "cs" /\ pc'[t] = "unlock") =>
            \A i \in 1..Len(achievements') :
                (/\ achievements'[i].id = Str_wayland_pro
                 /\ event_count' >= achievements'[i].target)
                    => achievements'[i].unlocked = 1]_vars

\* C13: no thread stands at a pthread_mutex_lock of data_mutex while it
\* holds data_mutex itself.
C13_NoRelock ==
    \A t \in AllThreads :
        (Pos(t) \in {"lock", "save_lock"} \/ pc[t] \in {"lock", "save_lock"})
            => data_mutex # t

\* C14: the step in which the dispatcher hands a popped notification to
\* send_notification is taken without data_mutex held by the dispatcher,
\* and pops one notification at most.
C14_SendOutsideLock ==
    [][Len(popped') > Len(popped) =>
         /\ data_mutex # "dispatcher"
         /\ Len(popped') = Len(popped) + 1]_vars

\* thread t is between a pthread_mutex_lock of data_mutex and the matching
\* unlock: in a worker's critical section (an evaluator inside
\* unlock_achievement's save included), or past save_engine_data's lock
InSection(t) ==
    \/ pc[t] \in {"cs", "unlock", "save_lock", "save_write", "save_unlock"}
    \/ handler.on = t /\ handler.pc \in {"save_write", "save_unlock"}

\* C15: every thread that stands where the code reads or writes the
\* catalog, the evaluator's counters or the queue fields holds data_mutex,
\* so at most one thread is there at a time; every step that changes one of
\* them is taken by the thread that holds data_mutex; and the catalog is
\* read for the store by the holder only.
C15_LockDiscipline ==
    /\ [](\A t \in AllThreads : InSection(t) => data_mutex = t)
    /\ [](\A t, u \in AllThreads : InSection(t) /\ InSection(u) => t = u)
    /\ [][<<achievements, boot_count, notification_queue, notification_head,
            notification_tail, notification_count>>'
            # <<achievements, boot_count, notification_queue,
                notification_head, notification_tail, notification_count>>
          => /\ data_mutex \in Threads
             /\ data_mutex' = data_mutex
             /\ pc[data_mutex] = "cs"
             /\ pc'[data_mutex] # "cs"]_vars
    /\ [][store' # store =>
            /\ data_mutex \in AllThreads
            /\ Pos(data_mutex) = "save_write"]_vars

\* the compositor worker has written the queue and still holds the lock,
\* while the dispatcher and the evaluator wait for it
C15_Witness ==
    /\ data_mutex = "wayland"
    /\ pc["wayland"] = "unlock"
    /\ outcome["wayland"] = "pushed"
    /\ pc["dispatcher"] = "lock"
    /\ pc["monitor"] = "lock"

\* the timer-driven workers
TimerWorkers == {"monitor", "dispatcher", "wayland"}

\* C16: once engine.enabled is 0, the evaluator, the dispatcher and the
\* compositor worker all leave their loops (or the process exits).
C16_WorkersExit ==
    (enabled = 0) ~> (exited \/ \A t \in TimerWorkers : pc[t] = "done")

\* the increment takes the counter across a multiple of the modulus
Crosses(old, new) == old \div EventModulus < new \div EventModulus

\* C17: the iterations of the compositor worker whose increment takes
\* event_count across a multiple of the modulus are the ones whose critical
\* section finds a notification due; event_count stays as it is from the
\* increment to the end of the critical section; and the critical section
\* enqueues exactly one system notification when one is due and the queue
\* has room, none otherwise.
C17_CrossingEnqueues ==
    /\ [][pc["wayland"] = "loop" /\ pc'["wayland"] = "lock" =>
            (Crosses(event_count, event_count')
                <=> event_count' % EventModulus = 0)]_vars
    /\ [][pc["wayland"] \in {"lock", "cs"} => event_count' = event_count]_vars
    /\ [][pc["wayland"] = "cs" /\ pc'["wayland"] = "unlock" =>
            IF /\ event_count % EventModulus = 0
               /\ notification_count < MAX_NOTIFICATIONS - 1
            THEN /\ Len(pushed') = Len(pushed) + 1
                 /\ notification_count' = notification_count + 1
                 /\ notification_queue'[notification_tail].type = "system"
            ELSE UNCHANGED <<pushed, notification_queue, notification_tail,
                             notification_count>>]_vars

(***************************************************************************)
(* Claim about the enable flag (SpecConfig).                               *)
(***************************************************************************)
\* C18: no reload of the configuration, whatever the file holds and
\* whether it exists, takes engine.enabled from 1 to 0: the only step that
\* does is the entry of the signal handler.
C18_EnableLatch ==
    /\ [][enabled # 0 /\ enabled' = 0 =>
            handler.on = "none" /\ handler'.on # "none"]_vars
    /\ [][config' # config => (enabled = 1 => enabled' = 1)]_vars

\* main has reloaded the configuration and found no file, and the engine
\* is still enabled
C18_Witness ==
    /\ ~config.exists
    /\ enabled = 1
    /\ handler.on = "none"
    /\ pc["main"] = "loop"

(***************************************************************************)
(* Claims about the ambient path and the ring buffer (Spec).               *)
(***************************************************************************)
\* the dispatcher takes its ambient path
AmbientStep == pc["dispatcher"] = "ambient" /\ pc'["dispatcher"] # "ambient"

\* C19: the ambient path of the dispatcher leaves the queue, head, tail and
\* count as they are and neither pushes nor pops; it is reached after every
\* critical section of the dispatcher, whether that popped a notification
\* or not; and a tick pops one queued notification at most.
C19_AmbientBypassesQueue ==
    /\ [][AmbientStep =>
            /\ UNCHANGED <<notification_queue, notification_head,
                            notification_tail, notification_count,
                            pushed, popped, data_mutex>>
            /\ pc'["dispatcher"] = "loop"]_vars
    /\ [][pc["dispatcher"] = "unlock" /\ pc'["dispatcher"] # "unlock" =>
            pc'["dispatcher"] = "ambient"]_vars
    /\ [][pc["dispatcher"] = "cs" /\ pc'["dispatcher"] # "cs" =>
            /\ pc'["dispatcher"] = "unlock"
            /\ Len(popped') <= Len(popped) + 1]_vars
    /\ [][pc["dispatcher"] # "cs" => popped' = popped]_vars

\* the dispatcher is back at the top of its loop after a tick that popped
\* a notification and went through the ambient path, and the queue still
\* holds a notification
C19_Witness ==
    /\ pc["dispatcher"] = "loop"
    /\ Len(popped) >= 1
    /\ notification_count >= 1

\* C20: head and tail are slot indices, notification_count is the distance
\* from head to tail around the ring, head differs from tail exactly when
\* the queue holds something, and a push never moves tail onto head.
C20_RingConsistent ==
    /\ [](/\ notification_head \in Slots
          /\ notification_tail \in Slots
          /\ notification_count =
               (notification_tail - notification_head + MAX_NOTIFICATIONS)
                   % MAX_NOTIFICATIONS
          /\ (notification_head # notification_tail) <=> notification_count > 0)
    /\ [][notification_tail' # notification_tail =>
            notification_tail' # notification_head']_vars

\* the tail has wrapped around the ring and the queue holds as many
\* notifications as the producer lets in
C20_Witness ==
    /\ notification_tail < notification_head
    /\ notification_count = MAX_NOTIFICATIONS - 1

====
